---------------------------- MODULE Spec2Model ----------------------------
(***************************************************************************)
(* Model of generate/generator/generate.go: the Dockerfile generator of    *)
(* the couchbase docker repository.                                        *)
(*                                                                         *)
(* A version string "MAJOR.MINOR.PATCH[-suffix]..." is the record          *)
(*   [num |-> <<MAJOR, MINOR, PATCH>>, suf |-> <<suffix, ...>>]            *)
(* so that "7.0.3-MP1" is [num |-> <<7,0,3>>, suf |-> <<"MP1">>] and       *)
(* "2.0.0-devbuild-staging" has suf = <<"devbuild", "staging">>.           *)
(* Formatted strings are records of the pieces substituted into the        *)
(* format.  Zero padding of "%02s" is modelled as Go pads it ("7" gives    *)
(* "07", "10" stays "10", "100" stays "100").                              *)
(***************************************************************************)
EXTENDS Integers, Sequences, FiniteSets, TLC

VARIABLES
    pc,        \* position of the process in main / generateAllDockerfiles / generateVariant
    mode,      \* "single" (generate BASE -p -v -e -o) or "batch" (generate BASE)
    req,       \* arguments of the running generateOneDockerfile call
    variant,   \* the DockerfileVariant built by generateOneDockerfile
    params,    \* template parameters computed by generateDockerfile
    sha,       \* results of the getSHA256 calls made so far, per architecture
    fs,        \* the file system: per target directory, the state of its files
    todo,      \* batch mode: the version directories not yet visited, in loop order
    steps,     \* generateVariant: what each step of the current call returned
    visited    \* batch mode: what was decided for each visited directory, in order

vars == <<pc, mode, req, variant, params, sha, fs, todo, steps, visited>>

-----------------------------------------------------------------------------
(* Bounds of the model *)

MaxMajor == 8
MaxMinor == 2
MaxPatch == 7
MaxDirs == 2
MaxEntries == 2

\* Sections of a version string; 10 and 99 are the two-digit edge cases.
Majors == 0 .. MaxMajor
Minors == (0 .. MaxMinor) \cup {6, 10, 99}
Patches == (0 .. MaxPatch) \cup {99}

-----------------------------------------------------------------------------
(* Constants of the program: generate.go lines 28-54 *)

EditionEnterprise == "enterprise"
EditionCommunity == "community"

ProductServer == "couchbase-server"
ProductSyncGw == "sync-gateway"
ProductSandbox == "server-sandbox"
ProductColumnar == "couchbase-columnar"
ProductEdgeServer == "couchbase-edge-server"
ProductEnterpriseAnalytics == "enterprise-analytics"

Archamd64 == "amd64"
Archarm64 == "arm64"
Archgeneric == "@@ARCH@@"

\* init(), lines 90-102
default_editions == <<EditionCommunity, EditionEnterprise>>

default_products ==
    <<ProductServer, ProductSyncGw, ProductSandbox, ProductColumnar,
      ProductEdgeServer, ProductEnterpriseAnalytics>>

Range(s) == {s[i] : i \in DOMAIN s}

V(a, b, c) == [num |-> <<a, b, c>>, suf |-> <<>>]

VSuf(a, b, c, s) == [num |-> <<a, b, c>>, suf |-> s]

\* The key "$product_$edition_$version" of a customization.
CustomKey(product, edition, version) ==
    [product |-> product, edition |-> edition, version |-> version]

\* init(), lines 104-113
versionCustomizations ==
    [k \in {CustomKey(ProductSyncGw, EditionCommunity, VSuf(2, 0, 0, <<"devbuild">>)),
            CustomKey(ProductSyncGw, EditionEnterprise, VSuf(2, 0, 0, <<"devbuild">>))} |->
        IF k.edition = EditionCommunity
        THEN [PackageUrl |-> [lit |-> "http://cbmobile-packages.s3.amazonaws.com/couchbase-sync-gateway-community_2.0.0-827_x86_64.rpm"],
              PackageFilename |-> [lit |-> "couchbase-sync-gateway-community_2.0.0-827_x86_64.rpm"]]
        ELSE [PackageUrl |-> [lit |-> "http://cbmobile-packages.s3.amazonaws.com/couchbase-sync-gateway-enterprise_2.0.0-827_x86_64.rpm"],
              PackageFilename |-> [lit |-> "couchbase-sync-gateway-enterprise_2.0.0-827_x86_64.rpm"]]]

-----------------------------------------------------------------------------
(* Strings *)

\* strings.HasSuffix(ver, "-staging")
HasSuffixStaging(ver) ==
    Len(ver.suf) > 0 /\ ver.suf[Len(ver.suf)] = "staging"

\* strings.TrimSuffix(ver, "-staging")
TrimSuffixStaging(ver) ==
    IF HasSuffixStaging(ver)
    THEN [ver EXCEPT !.suf = SubSeq(ver.suf, 1, Len(ver.suf) - 1)]
    ELSE ver

\* fmt.Sprintf("%s-staging", version)
AppendStaging(ver) == [ver EXCEPT !.suf = Append(ver.suf, "staging")]

\* strings.ToLower on an edition name
ToLower(s) ==
    CASE s = "Enterprise" -> "enterprise"
      [] s = "Community" -> "community"
      [] OTHER -> s

\* strings.Contains(version, needle), for a needle that is a whole suffix word
Contains(ver, needle) == \E i \in DOMAIN ver.suf : ver.suf[i] = needle

-----------------------------------------------------------------------------
(* intVer, lines 624-635 *)

Pow10(k) ==
    CASE k = 0 -> 1 [] k = 1 -> 10 [] k = 2 -> 100 [] k = 3 -> 1000 [] OTHER -> 10000

\* The number of characters of fmt.Sprintf("%02s", section)
PaddedWidth(n) ==
    IF n < 100 THEN 2 ELSE IF n < 1000 THEN 3 ELSE 4

\* The three padded sections are concatenated and parsed as one decimal number.
intVer(v) ==
    LET n == v.num
    IN  (n[1] * Pow10(PaddedWidth(n[2])) + n[2]) * Pow10(PaddedWidth(n[3])) + n[3]

-----------------------------------------------------------------------------
(* github.com/hashicorp/go-version, as used by ubuntuVersion *)

\* Lexicographic comparison of two segment triples: -1, 0 or 1.
CompareSegments(a, b) ==
    IF a[1] # b[1] THEN (IF a[1] < b[1] THEN -1 ELSE 1)
    ELSE IF a[2] # b[2] THEN (IF a[2] < b[2] THEN -1 ELSE 1)
    ELSE IF a[3] # b[3] THEN (IF a[3] < b[3] THEN -1 ELSE 1)
    ELSE 0

\* Version.Compare against a constraint version that has no pre-release part:
\* with equal segments, a version that has a pre-release part is the smaller.
VersionCompare(v, c) ==
    IF CompareSegments(v.num, c) # 0 THEN CompareSegments(v.num, c)
    ELSE IF v.suf # <<>> THEN -1 ELSE 0

\* prereleaseCheck: releases of the library that have it let a constraint
\* without pre-release part match only versions without one.  strict tells
\* whether the linked release has the check.
PrereleaseCheck(v, strict) == ~(strict /\ v.suf # <<>>)

ConstraintGE(v, c, strict) == PrereleaseCheck(v, strict) /\ VersionCompare(v, c) >= 0

ConstraintLE(v, c, strict) == PrereleaseCheck(v, strict) /\ VersionCompare(v, c) <= 0

ConstraintLT(v, c, strict) == PrereleaseCheck(v, strict) /\ VersionCompare(v, c) < 0

\* A constraint ">= lo, <= hi"
CheckClosed(v, lo, hi, strict) == ConstraintGE(v, lo, strict) /\ ConstraintLE(v, hi, strict)

\* A constraint ">= lo, < hi"
CheckHalfOpen(v, lo, hi, strict) == ConstraintGE(v, lo, strict) /\ ConstraintLT(v, hi, strict)

-----------------------------------------------------------------------------
(* The methods of DockerfileVariant *)

\* ubuntuVersion with the 20.04 range excluding its upper end
ubuntuVersionOpenEnd(vt, strict) ==
    CASE vt.Product = ProductSyncGw -> "22.04"
      [] vt.Product = ProductEdgeServer -> "22.04"
      [] vt.Product = ProductColumnar -> "22.04"
      [] vt.Product = ProductEnterpriseAnalytics -> "24.04"
      [] vt.Product = ProductServer ->
            IF CheckHalfOpen(vt.Version, <<4, 0, 0>>, <<5, 0, 0>>, strict) THEN "14.04"
            ELSE IF CheckClosed(vt.Version, <<5, 0, 0>>, <<6, 0, 0>>, strict) THEN "16.04"
            ELSE IF CheckClosed(vt.Version, <<6, 0, 1>>, <<6, 6, 1>>, strict) THEN "18.04"
            ELSE IF CheckHalfOpen(vt.Version, <<6, 6, 2>>, <<7, 1, 6>>, strict) THEN "20.04"
            ELSE IF CheckClosed(vt.Version, <<7, 2, 0>>, <<7, 2, 5>>, strict) THEN "22.04"
            ELSE IF CheckClosed(vt.Version, <<7, 6, 0>>, <<7, 6, 1>>, strict) THEN "22.04"
            ELSE "24.04"
      [] OTHER -> ""

\* ubuntuVersion, lines 642-697
ubuntuVersion(vt, strict) ==
    CASE vt.Product = ProductSyncGw -> "22.04"
      [] vt.Product = ProductEdgeServer -> "22.04"
      [] vt.Product = ProductColumnar -> "22.04"
      [] vt.Product = ProductEnterpriseAnalytics -> "24.04"
      [] vt.Product = ProductServer ->
            IF CheckHalfOpen(vt.Version, <<4, 0, 0>>, <<5, 0, 0>>, strict) THEN "14.04"
            ELSE IF CheckClosed(vt.Version, <<5, 0, 0>>, <<6, 0, 0>>, strict) THEN "16.04"
            ELSE IF CheckClosed(vt.Version, <<6, 0, 1>>, <<6, 6, 1>>, strict) THEN "18.04"
            ELSE IF CheckClosed(vt.Version, <<6, 6, 2>>, <<7, 1, 6>>, strict) THEN "20.04"
            ELSE IF CheckClosed(vt.Version, <<7, 2, 0>>, <<7, 2, 5>>, strict) THEN "22.04"
            ELSE IF CheckClosed(vt.Version, <<7, 6, 0>>, <<7, 6, 1>>, strict) THEN "22.04"
            ELSE "24.04"
      [] OTHER -> ""

\* dockerBaseImage, lines 578-604
dockerBaseImage(vt, strict) ==
    CASE vt.Product = ProductSyncGw ->
            IF Contains(vt.Version, "forestdb") THEN [lit |-> "tleyden5iwx/forestdb"]
            ELSE IF intVer(vt.Version) <= 30003 THEN [lit |-> "centos:centos7"]
            ELSE [image |-> "ubuntu", tag |-> ubuntuVersion(vt, strict)]
      [] vt.Product \in {ProductEdgeServer, ProductServer, ProductColumnar,
                         ProductEnterpriseAnalytics} ->
            [image |-> "ubuntu", tag |-> ubuntuVersion(vt, strict)]
      [] vt.Product = ProductSandbox ->
            [image |-> "couchbase/server", version |-> vt.Version]
      [] OTHER -> [panic |-> "Unexpected product"]

\* serverPkgCommand, lines 606-612
serverPkgCommand(vt) == "apt-get"

\* systemdWorkaround, lines 614-622
systemdWorkaround(vt) == vt.Product = ProductServer /\ intVer(vt.Version) < 70000

\* isMadHatterOrNewer, lines 637-640
isMadHatterOrNewer(vt) == intVer(vt.Version) >= 60500

\* extraStuffAfterVersion, lines 717-725: what follows "N.N.N-"
extraStuffAfterVersion(version) == version.suf

\* VersionWithSubstitutions, lines 700-713
VersionWithSubstitutions(vt) ==
    IF vt.Product = ProductSyncGw /\ extraStuffAfterVersion(vt.Version) = <<"forestdb">>
    THEN [feature |-> "forestdb"]
    ELSE vt.Version

\* serverPackageFile, lines 729-750
serverPackageFile(vt, arch, strict) ==
    IF intVer(vt.Version) >= 70100
    THEN [product |-> vt.Product, edition |-> vt.Edition, version |-> vt.Version,
          os |-> "linux", arch |-> arch, ext |-> "deb"]
    ELSE [product |-> vt.Product, edition |-> vt.Edition, version |-> vt.Version,
          os |-> <<"ubuntu", ubuntuVersion(vt, strict)>>, arch |-> Archamd64, ext |-> "deb"]

\* serverPackageName, lines 754-760
serverPackageName(vt) ==
    IF vt.Edition = EditionCommunity THEN "couchbase-server-community" ELSE "couchbase-server"

\* extraDependencies, lines 763-772
extraDependencies(vt) ==
    IF vt.Product = ProductServer
    THEN (IF isMadHatterOrNewer(vt) THEN "bzip2" ELSE "python-httplib2")
    ELSE ""

\* targetDir built from Version instead of TargetVersion
targetDirFromVersion(vt) ==
    IF vt.OutputDir # ""
    THEN [out |-> vt.OutputDir]
    ELSE [edition |-> vt.Edition, product |-> vt.Product,
          version |-> IF vt.IsStaging THEN AppendStaging(vt.Version) ELSE vt.Version]

\* targetDir, lines 774-792: an explicit output directory, or
\* baseDir/edition/product/TargetVersion[-staging]
targetDir(vt) ==
    IF vt.OutputDir # ""
    THEN [out |-> vt.OutputDir]
    ELSE [edition |-> vt.Edition, product |-> vt.Product,
          version |-> IF vt.IsStaging THEN AppendStaging(vt.TargetVersion)
                      ELSE vt.TargetVersion]

\* releaseURL, lines 798-812
releaseURL(vt) ==
    IF vt.Product = ProductServer
    THEN [host |-> IF vt.IsStaging THEN "http://packages-staging.couchbase.com/releases"
                   ELSE "https://packages.couchbase.com/releases",
          path |-> <<vt.Version>>]
    ELSE [host |-> IF vt.IsStaging THEN "http://packages-staging.couchbase.com/releases"
                   ELSE "https://packages.couchbase.com/releases",
          path |-> <<vt.Product, vt.Version>>]

\* versionCustomizationKey, lines 872-874
versionCustomizationKey(vt) == CustomKey(vt.Product, vt.Edition, vt.Version)

\* versionCustomization, lines 864-870: whether the key is in the table
hasCustomization(vt) == versionCustomizationKey(vt) \in DOMAIN versionCustomizations

versionCustomization(vt) == versionCustomizations[versionCustomizationKey(vt)]

\* sgPatternFilename with 3.0.3 already on the .deb side
sgPatternFilenameStrict(vt) ==
    IF intVer(vt.Version) < 30003
    THEN [base |-> "couchbase-sync-gateway", edition |-> ToLower(vt.Edition),
          version |-> vt.Version, arch |-> Archgeneric, ext |-> "rpm"]
    ELSE [base |-> "couchbase-sync-gateway", edition |-> ToLower(vt.Edition),
          version |-> vt.Version, arch |-> Archgeneric, ext |-> "deb"]

\* The pattern branch of sgPackageFilename, lines 846-860
sgPatternFilename(vt) ==
    IF intVer(vt.Version) <= 30003
    THEN [base |-> "couchbase-sync-gateway", edition |-> ToLower(vt.Edition),
          version |-> vt.Version, arch |-> Archgeneric, ext |-> "rpm"]
    ELSE [base |-> "couchbase-sync-gateway", edition |-> ToLower(vt.Edition),
          version |-> vt.Version, arch |-> Archgeneric, ext |-> "deb"]

\* sgPackageFilename, lines 840-862
sgPackageFilename(vt) ==
    IF hasCustomization(vt)
    THEN versionCustomization(vt).PackageFilename
    ELSE sgPatternFilename(vt)

\* sgPackageUrl that consults the customization table only for production
sgPackageUrlStagingFirst(vt) ==
    IF hasCustomization(vt) /\ ~vt.IsStaging
    THEN versionCustomization(vt).PackageUrl
    ELSE [host |-> IF vt.IsStaging
                   THEN "http://packages-staging.couchbase.com/releases/couchbase-sync-gateway"
                   ELSE "http://packages.couchbase.com/releases/couchbase-sync-gateway",
          path |-> <<vt.Version, sgPackageFilename(vt)>>]

\* sgPackageUrl, lines 815-838
sgPackageUrl(vt) ==
    IF hasCustomization(vt)
    THEN versionCustomization(vt).PackageUrl
    ELSE [host |-> IF vt.IsStaging
                   THEN "http://packages-staging.couchbase.com/releases/couchbase-sync-gateway"
                   ELSE "http://packages.couchbase.com/releases/couchbase-sync-gateway",
          path |-> <<vt.Version, sgPackageFilename(vt)>>]

\* edgeServerPackageFile, lines 878-885
edgeServerPackageFile(vt, arch) ==
    [product |-> vt.Product, version |-> vt.Version, arch |-> arch, ext |-> "deb"]

\* columnarPackageFile, lines 889-897
columnarPackageFile(vt, arch) ==
    [product |-> vt.Product, edition |-> vt.Edition, version |-> vt.Version,
     os |-> "linux", arch |-> arch, ext |-> "deb"]

\* enterpriseAnalyticsPackageFile, lines 901-908
enterpriseAnalyticsPackageFile(vt, arch) ==
    [product |-> vt.Product, version |-> vt.Version, os |-> "linux", arch |-> arch,
     ext |-> "deb"]

-----------------------------------------------------------------------------
(* generateOneDockerfile, lines 205-250: the variant it constructs *)

\* lines 210-220
baseVariant(edition, product, ver, outputDir, overrides) ==
    [Edition |-> edition,
     Product |-> product,
     Version |-> TrimSuffixStaging(ver),
     TargetVersion |-> TrimSuffixStaging(ver),
     Arches |-> <<Archamd64>>,
     IsStaging |-> HasSuffixStaging(ver),
     TemplateFilename |-> "Dockerfile.template",
     OutputDir |-> outputDir,
     TemplateOverrides |-> overrides]

\* tweakServer with the arm64 threshold one minor release late
tweakServerLateArm(vt, productVer) ==
    LET v1 == IF productVer = 70003
              THEN [vt EXCEPT !.Version = VSuf(7, 0, 3, <<"MP1">>)]
              ELSE vt
    IN  IF productVer >= 70200
        THEN [v1 EXCEPT !.Arches = Append(v1.Arches, Archarm64)]
        ELSE v1

\* lines 225-235
tweakServer(vt, productVer) ==
    LET v1 == IF productVer = 70003
              THEN [vt EXCEPT !.Version = VSuf(7, 0, 3, <<"MP1">>)]
              ELSE vt
    IN  IF productVer >= 70100
        THEN [v1 EXCEPT !.Arches = Append(v1.Arches, Archarm64)]
        ELSE v1

\* The sync-gateway tweak with the threshold one patch release later
tweakSyncGwLate(vt, productVer) ==
    IF productVer <= 30004
    THEN [vt EXCEPT !.TemplateFilename = "Dockerfile.centos.template"]
    ELSE [vt EXCEPT !.TemplateFilename = "Dockerfile.ubuntu.template",
                    !.Arches = Append(vt.Arches, Archarm64)]

\* lines 236-242
tweakSyncGw(vt, productVer) ==
    IF productVer <= 30003
    THEN [vt EXCEPT !.TemplateFilename = "Dockerfile.centos.template"]
    ELSE [vt EXCEPT !.TemplateFilename = "Dockerfile.ubuntu.template",
                    !.Arches = Append(vt.Arches, Archarm64)]

\* lines 243-247
tweakSandbox(vt, productVer) ==
    IF productVer >= 71000
    THEN [vt EXCEPT !.Arches = Append(vt.Arches, Archarm64)]
    ELSE vt

\* lines 248-250
tweakAlwaysArm(vt) == [vt EXCEPT !.Arches = Append(vt.Arches, Archarm64)]

\* lines 209-250
newVariant(edition, product, ver, outputDir, overrides) ==
    LET vt == baseVariant(edition, product, ver, outputDir, overrides)
        productVer == intVer(vt.Version)
    IN  CASE product = ProductServer -> tweakServer(vt, productVer)
          [] product = ProductSyncGw -> tweakSyncGw(vt, productVer)
          [] product = ProductSandbox -> tweakSandbox(vt, productVer)
          [] product \in {ProductColumnar, ProductEnterpriseAnalytics} -> tweakAlwaysArm(vt)
          [] OTHER -> vt

\* dockerfile, lines 794-796
dockerfile(vt) == targetDir(vt)

-----------------------------------------------------------------------------
(* getSHA256, lines 554-576 *)

\* What http.Get and the read of the body can give.  A body is the sequence of
\* its whitespace runs (" ") and words.
Bodies ==
    {<<>>, <<" ">>, <<"c0ffee">>, <<" ", "c0ffee">>, <<"c0ffee", " ", "pkg.deb", " ">>}

FetchOutcomes ==
    {[err |-> TRUE, status |-> 0, readOK |-> FALSE, body |-> <<>>],
     [err |-> FALSE, status |-> 404, readOK |-> TRUE, body |-> <<"c0ffee">>],
     [err |-> FALSE, status |-> 200, readOK |-> FALSE, body |-> <<>>]}
    \cup {[err |-> FALSE, status |-> 200, readOK |-> TRUE, body |-> b] : b \in Bodies}

\* strings.Fields
Fields(body) == SelectSeq(body, LAMBDA w : w # " ")

\* The URL fetched: only couchbase-server gets one, every other product fetches "".
sha256url(vt, arch, strict) ==
    IF vt.Product = ProductServer
    THEN [url |-> releaseURL(vt), file |-> serverPackageFile(vt, arch, strict), ext |-> "sha256"]
    ELSE [lit |-> ""]

\* The value getSHA256 returns for a fetch outcome; [panic |-> ...] when
\* indexing the empty result of strings.Fields aborts the process.
getSHA256(o) ==
    IF o.err \/ o.status # 200 THEN [str |-> "MISSING_SHA256_ERROR"]
    ELSE IF ~o.readOK THEN [str |-> "HTTP_ERROR"]
    ELSE IF Fields(o.body) = <<>> THEN [panic |-> "index out of range"]
    ELSE [str |-> Fields(o.body)[1]]

-----------------------------------------------------------------------------
(* generateDockerfile, lines 287-373: the template parameters *)

serverParams(vt, shas, strict) ==
    [CB_VERSION |-> VersionWithSubstitutions(vt),
     CB_PACKAGE |-> serverPackageFile(vt, Archgeneric, strict),
     CB_PACKAGE_NAME |-> serverPackageName(vt),
     CB_EXTRA_DEPS |-> extraDependencies(vt),
     CB_SHA256_arm64 |-> shas[Archarm64].str,
     CB_SHA256_amd64 |-> shas[Archamd64].str,
     CB_RELEASE_URL |-> releaseURL(vt),
     DOCKER_BASE_IMAGE |-> dockerBaseImage(vt, strict),
     PKG_COMMAND |-> serverPkgCommand(vt),
     SYSTEMD_WORKAROUND |-> systemdWorkaround(vt),
     CB_MULTIARCH |-> Len(vt.Arches) > 1,
     CB_SKIP_CHECKSUM |-> "false"]

syncGwParams(vt, strict) ==
    [SYNC_GATEWAY_PACKAGE_URL |-> sgPackageUrl(vt),
     SYNC_GATEWAY_PACKAGE_FILENAME |-> sgPackageFilename(vt),
     DOCKER_BASE_IMAGE |-> dockerBaseImage(vt, strict)]

sandboxParams(vt, strict) ==
    [CB_VERSION |-> VersionWithSubstitutions(vt),
     DOCKER_BASE_IMAGE |-> dockerBaseImage(vt, strict),
     CB_MULTIARCH |-> Len(vt.Arches) > 1]

columnarParams(vt, strict) ==
    [CB_VERSION |-> VersionWithSubstitutions(vt),
     CB_PACKAGE |-> columnarPackageFile(vt, Archgeneric),
     CB_RELEASE_URL |-> releaseURL(vt),
     DOCKER_BASE_IMAGE |-> dockerBaseImage(vt, strict),
     CB_MULTIARCH |-> Len(vt.Arches) > 1]

enterpriseAnalyticsParams(vt, strict) ==
    [CB_VERSION |-> VersionWithSubstitutions(vt),
     CB_PACKAGE |-> enterpriseAnalyticsPackageFile(vt, Archgeneric),
     CB_RELEASE_URL |-> releaseURL(vt),
     DOCKER_BASE_IMAGE |-> dockerBaseImage(vt, strict),
     CB_MULTIARCH |-> Len(vt.Arches) > 1]

edgeServerParams(vt, strict) ==
    [CB_RELEASE_URL |-> releaseURL(vt),
     CB_PACKAGE_NAME |-> edgeServerPackageFile(vt, Archgeneric),
     DOCKER_BASE_IMAGE |-> dockerBaseImage(vt, strict)]

\* lines 310-368
productParams(vt, shas, strict) ==
    CASE vt.Product = ProductServer -> serverParams(vt, shas, strict)
      [] vt.Product = ProductSyncGw -> syncGwParams(vt, strict)
      [] vt.Product = ProductSandbox -> sandboxParams(vt, strict)
      [] vt.Product = ProductColumnar -> columnarParams(vt, strict)
      [] vt.Product = ProductEnterpriseAnalytics -> enterpriseAnalyticsParams(vt, strict)
      [] vt.Product = ProductEdgeServer -> edgeServerParams(vt, strict)

\* lines 370-373: params[key] = value for every override
applyOverrides(ps, overrides) ==
    [k \in DOMAIN ps \cup DOMAIN overrides |->
        IF k \in DOMAIN overrides THEN overrides[k] ELSE ps[k]]

-----------------------------------------------------------------------------
(* The file system *)

\* A target directory without generated files, and one generated by an
\* earlier run ("old" content).
Fresh == [dockerfile |-> "absent", scripts |-> "absent", config |-> "absent",
          readme |-> "absent"]

Generated == [dockerfile |-> "old", scripts |-> "old", config |-> "old", readme |-> "old"]

\* The directory baseDir/edition/product/name that batch mode scans.
VersionDir(edition, product, name) ==
    [edition |-> edition, product |-> product, version |-> name]

\* os.Stat(variant.dockerfile()), line 261: whether the file exists
dockerfileExists(files, dir) == dir \in DOMAIN files /\ files[dir].dockerfile # "absent"

NoSteps == [stat |-> "-", create |-> "-", render |-> "-", scripts |-> "-",
            config |-> "-", readme |-> "-"]

NoShas == <<>>

Nothing == [none |-> TRUE]

-----------------------------------------------------------------------------
(* Inputs *)

\* Suffixes a version name carries: -staging for every product, and for
\* sync-gateway the build names the generator knows (lines 58, 106, 582, 702).
Suffixes(product) ==
    {<<>>, <<"staging">>}
    \cup (IF product = ProductSyncGw
          THEN {<<"devbuild">>, <<"devbuild", "staging">>, <<"forestdb">>}
          ELSE {})

Products == Range(default_products)

\* Editions as typed on the command line
Editions == {EditionCommunity, EditionEnterprise, "Enterprise"}

NoOverrides == <<>>

Request(edition, product, ver, outputDir, overrides, noOverwrite) ==
    [edition |-> edition, product |-> product, ver |-> ver, outputDir |-> outputDir,
     overrides |-> overrides, noOverwrite |-> noOverwrite]

\* main, lines 151-160: the single-variant call
SingleRequests ==
    {Request(e, p, [num |-> <<a, b, c>>, suf |-> s], o, NoOverrides, FALSE) :
        e \in Editions, p \in Products, a \in Majors, b \in Minors, c \in Patches,
        s \in {<<>>, <<"staging">>, <<"devbuild">>, <<"devbuild", "staging">>, <<"forestdb">>},
        o \in {"out", ""}}

\* The directory a request names: -o DIR, or with an empty DIR the version
\* directory baseDir/edition/product/version.
RequestDir(r) ==
    IF r.outputDir # "" THEN [out |-> r.outputDir]
    ELSE VersionDir(r.edition, r.product, r.ver)

WellFormed(r) == r.ver.suf \in Suffixes(r.product)

\* Where the process goes after the last step of generateVariant returned nil:
\* back into the loop of generateAllDockerfiles, or to the end of main.
AfterVariant == IF mode = "batch" THEN "generateAllDockerfiles" ELSE "done"

-----------------------------------------------------------------------------
(* Actions *)

\* main, lines 151-160: generate BASE -p PRODUCT -v VERSION -e EDITION -o DIR
mainSingle ==
    /\ pc = "main"
    /\ mode = "single"
    /\ pc' = "generateOneDockerfile"
    /\ UNCHANGED <<mode, req, variant, params, sha, fs, todo, steps, visited>>

\* generateOneDockerfile, lines 205-250: build the variant
generateOneDockerfile ==
    /\ pc = "generateOneDockerfile"
    /\ variant' = newVariant(req.edition, req.product, req.ver, req.outputDir,
                             req.overrides)
    /\ steps' = NoSteps
    /\ sha' = NoShas
    /\ params' = Nothing
    /\ pc' = "generateVariant"
    /\ UNCHANGED <<mode, req, fs, todo, visited>>

\* generateVariant returning from the branch that finds the Dockerfile
generateVariantSkipsReadme ==
    /\ pc = "generateVariant"
    /\ IF req.noOverwrite /\ dockerfileExists(fs, dockerfile(variant))
       THEN /\ steps' = [steps EXCEPT !.stat = "skip"]
            /\ pc' = AfterVariant
       ELSE /\ steps' = [steps EXCEPT !.stat = "generate"]
            /\ pc' = IF variant.Product = ProductServer THEN "getSHA256"
                     ELSE "generateDockerfile"
    /\ UNCHANGED <<mode, req, variant, params, sha, fs, todo, visited>>

\* generateVariant that does not look at noOverwrite
generateVariantOverwrites ==
    /\ pc = "generateVariant"
    /\ steps' = [steps EXCEPT !.stat = "generate"]
    /\ pc' = IF variant.Product = ProductServer THEN "getSHA256" ELSE "generateDockerfile"
    /\ UNCHANGED <<mode, req, variant, params, sha, fs, todo, visited>>

\* generateVariant, lines 260-264: stat the Dockerfile and choose the branch
generateVariant ==
    /\ pc = "generateVariant"
    /\ IF req.noOverwrite /\ dockerfileExists(fs, dockerfile(variant))
       THEN /\ steps' = [steps EXCEPT !.stat = "skip"]
            /\ pc' = "deployReadme"
       ELSE /\ steps' = [steps EXCEPT !.stat = "generate"]
            /\ pc' = IF variant.Product = ProductServer THEN "getSHA256"
                     ELSE "generateDockerfile"
    /\ UNCHANGED <<mode, req, variant, params, sha, fs, todo, visited>>

\* The architecture of the next getSHA256 call of generateDockerfile:
\* lines 317-318, arm64 first.
nextShaArch(shas) == IF Archarm64 \in DOMAIN shas THEN Archamd64 ELSE Archarm64

\* getSHA256, lines 554-576, called from generateDockerfile lines 317-318
getSHA256Call ==
    /\ pc = "getSHA256"
    /\ \E o \in FetchOutcomes :
          LET r == getSHA256(o)
              arch == nextShaArch(sha)
          IN  /\ sha' = [a \in DOMAIN sha \cup {arch} |-> IF a = arch THEN r ELSE sha[a]]
              /\ pc' = IF "panic" \in DOMAIN r THEN "panic"
                       ELSE IF arch = Archamd64 THEN "generateDockerfile"
                       ELSE "getSHA256"
    /\ UNCHANGED <<mode, req, variant, params, fs, todo, steps, visited>>

\* generateDockerfile, lines 287-373: compute the template parameters
generateDockerfile ==
    /\ pc = "generateDockerfile"
    /\ \E strict \in BOOLEAN :
          params' = applyOverrides(productParams(variant, sha, strict),
                                   variant.TemplateOverrides)
    /\ pc' = "createDockerfile"
    /\ UNCHANGED <<mode, req, variant, sha, fs, todo, steps, visited>>

-----------------------------------------------------------------------------
(* The resolver: single-variant runs over every input, up to the point where
   the template parameters are computed *)

Init ==
    /\ pc = "main"
    /\ mode = "single"
    /\ req \in {r \in SingleRequests : WellFormed(r)}
    /\ variant = Nothing
    /\ params = Nothing
    /\ sha = NoShas
    /\ fs = [d \in {RequestDir(req)} |-> Fresh]
    /\ todo = <<>>
    /\ steps = NoSteps
    /\ visited = <<>>

Next ==
    \/ mainSingle
    \/ generateOneDockerfile
    \/ generateVariant
    \/ getSHA256Call
    \/ generateDockerfile

Spec == Init /\ [][Next]_vars

-----------------------------------------------------------------------------
(* Directory names as characters: the order of filepath.Glob and the regular
   expression of skipGeneration read them character by character *)

\* The decimal digits of a section, as character codes
DigitChars(n) ==
    IF n < 10 THEN <<48 + n>>
    ELSE IF n < 100 THEN <<48 + (n \div 10), 48 + (n % 10)>>
    ELSE <<48 + (n \div 100), 48 + ((n \div 10) % 10), 48 + (n % 10)>>

\* The characters of a suffix word
WordChars(w) ==
    CASE w = "staging" -> <<115, 116, 97, 103, 105, 110, 103>>
      [] w = "devbuild" -> <<100, 101, 118, 98, 117, 105, 108, 100>>
      [] w = "forestdb" -> <<102, 111, 114, 101, 115, 116, 100, 98>>
      [] w = "MP1" -> <<77, 80, 49>>

RECURSIVE SuffixChars(_)
SuffixChars(suf) ==
    IF suf = <<>> THEN <<>>
    ELSE <<45>> \o WordChars(Head(suf)) \o SuffixChars(Tail(suf))

\* The characters of the name "MAJOR.MINOR.PATCH[-suffix]..."
Chars(ver) ==
    DigitChars(ver.num[1]) \o <<46>> \o DigitChars(ver.num[2]) \o <<46>>
        \o DigitChars(ver.num[3]) \o SuffixChars(ver.suf)

\* strings.HasPrefix on characters
HasPrefix(cs, prefix) ==
    Len(cs) >= Len(prefix) /\ SubSeq(cs, 1, Len(prefix)) = prefix

\* The order of Go strings
RECURSIVE StringLess(_, _)
StringLess(a, b) ==
    IF b = <<>> THEN FALSE
    ELSE IF a = <<>> THEN TRUE
    ELSE IF Head(a) # Head(b) THEN Head(a) < Head(b)
    ELSE StringLess(Tail(a), Tail(b))

\* skipGeneration with the dots of the expression left out: `^(1|2.0).+$`
skipGenerationRegexpNoDots(cs) ==
    \/ HasPrefix(cs, <<49>>) /\ Len(cs) > 1
    \/ Len(cs) > 3 /\ cs[1] = 50 /\ cs[3] = 48

\* skipGeneration, lines 115-117: `^(1\.|2\.0\.).+$` for sync-gateway
skipGenerationRegexp(cs) ==
    \/ HasPrefix(cs, <<49, 46>>) /\ Len(cs) > 2
    \/ HasPrefix(cs, <<50, 46, 48, 46>>) /\ Len(cs) > 4

\* ProductVersionFilter.Matches, lines 74-79
Matches(product, ver) ==
    product = ProductSyncGw /\ skipGenerationRegexp(Chars(ver))

IndexOf(seq, x) == CHOOSE i \in DOMAIN seq : seq[i] = x

\* The order in which generateAllDockerfiles reaches two version directories:
\* editions, then products, in the order of the default lists (lines 184-185),
\* then the names as filepath.Glob sorts them (line 456).
DirBefore(x, y) ==
    IF x.edition # y.edition
    THEN IndexOf(default_editions, x.edition) < IndexOf(default_editions, y.edition)
    ELSE IF x.product # y.product
    THEN IndexOf(default_products, x.product) < IndexOf(default_products, y.product)
    ELSE StringLess(Chars(x.version), Chars(y.version))

RECURSIVE ScanOrder(_)
ScanOrder(dirs) ==
    IF dirs = {} THEN <<>>
    ELSE LET first == CHOOSE x \in dirs : \A y \in dirs \ {x} : DirBefore(x, y)
         IN  <<first>> \o ScanOrder(dirs \ {first})

\* The version directories under baseDir that the loops of
\* generateAllDockerfiles visit.
versionSubdirectories(files) ==
    {d \in DOMAIN files : /\ DOMAIN d = {"edition", "product", "version"}
                          /\ d.edition \in Range(default_editions)
                          /\ d.product \in Range(default_products)}

-----------------------------------------------------------------------------
(* CopyFile and CopyDir *)

\* CopyFile, lines 464-492.  How a copy can go: "ok"; "open" (the source
\* cannot be opened) and "create" (the destination cannot be created) fail
\* before anything is written; "copy" fails while writing; "chmod" fails after
\* the content is written, which is logged and not returned.
CopyOutcomes == {"ok", "open", "create", "copy", "chmod"}

CopyFile(o) ==
    CASE o = "ok" -> [err |-> FALSE, wrote |-> "all"]
      [] o = "chmod" -> [err |-> FALSE, wrote |-> "all"]
      [] o = "copy" -> [err |-> TRUE, wrote |-> "some"]
      [] OTHER -> [err |-> TRUE, wrote |-> "none"]

\* How deploying a resource directory can go: whether exists() finds the
\* source ("yes", "no", "err"), how far CopyDir gets before its loop ("stat",
\* "mkdir" and "readdir" name the call that fails) and the outcome of the copy
\* of each directory entry, in the order of Readdir.
CopyScenarios ==
    {[exists |-> e, pre |-> "ok", entries |-> <<>>] : e \in {"no", "err"}}
    \cup {[exists |-> "yes", pre |-> p, entries |-> <<>>] : p \in {"stat", "mkdir", "readdir"}}
    \cup {[exists |-> "yes", pre |-> "ok", entries |-> es] :
            es \in UNION {[1 .. n -> {"ok", "fail"}] : n \in 0 .. MaxEntries}}

\* CopyDir, lines 494-534: err is overwritten by every entry, so the error
\* returned is that of the last entry (or of Readdir when there is none).
CopyDir(sc) ==
    IF sc.pre \in {"stat", "mkdir"} THEN [err |-> TRUE, wrote |-> "none"]
    ELSE IF sc.pre = "readdir" THEN [err |-> TRUE, wrote |-> "some"]
    ELSE IF sc.entries = <<>> THEN [err |-> FALSE, wrote |-> "all"]
    ELSE [err |-> sc.entries[Len(sc.entries)] = "fail",
          wrote |-> IF \A i \in DOMAIN sc.entries : sc.entries[i] = "ok"
                    THEN "all" ELSE "some"]

\* deployResourcesSubdir, lines 399-421
deployResourcesSubdir(sc) ==
    IF sc.exists = "err" THEN [err |-> TRUE, wrote |-> "none"]
    ELSE IF sc.exists = "no" THEN [err |-> FALSE, wrote |-> "none"]
    ELSE CopyDir(sc)

\* The state of a destination after a copy
Written(before, result) ==
    CASE result.wrote = "all" -> "new"
      [] result.wrote = "some" -> "partial"
      [] OTHER -> before

StepResult(result) == IF result.err THEN "err" ELSE "ok"

-----------------------------------------------------------------------------
(* Actions of the writer and of the resource deployer *)

\* generateDockerfile, lines 375-380: os.Create(targetDockerfile)
createDockerfile ==
    /\ pc = "createDockerfile"
    /\ LET dir == dockerfile(variant)
       IN  \E ok \in BOOLEAN :
              IF ok /\ dir \in DOMAIN fs
              THEN /\ fs' = [fs EXCEPT ![dir].dockerfile = "empty"]
                   /\ steps' = [steps EXCEPT !.create = "ok"]
                   /\ pc' = "renderTemplate"
              ELSE /\ fs' = fs
                   /\ steps' = [steps EXCEPT !.create = "err"]
                   /\ pc' = "fatal"
    /\ UNCHANGED <<mode, req, variant, params, sha, todo, visited>>

\* generateDockerfile, lines 382-396: read, parse and execute the template,
\* and return; the parameters are locals of generateDockerfile
renderTemplate ==
    /\ pc = "renderTemplate"
    /\ LET dir == dockerfile(variant)
       IN  \E o \in {"ok", "ReadFile", "Parse", "Execute"} :
              /\ fs' = [fs EXCEPT ![dir].dockerfile =
                            CASE o = "ok" -> "new"
                              [] o = "Execute" -> "partial"
                              [] OTHER -> "empty"]
              /\ steps' = [steps EXCEPT !.render = IF o = "ok" THEN "ok" ELSE "err"]
              /\ pc' = IF o = "ok" THEN "deployScriptResources" ELSE "fatal"
    /\ params' = Nothing
    /\ sha' = NoShas
    /\ UNCHANGED <<mode, req, variant, todo, visited>>

\* deployScriptResources, lines 423-425, and generateVariant lines 269-271
deployScriptResources ==
    /\ pc = "deployScriptResources"
    /\ LET dir == targetDir(variant)
       IN  \E sc \in CopyScenarios :
              LET r == deployResourcesSubdir(sc)
              IN  /\ fs' = [fs EXCEPT ![dir].scripts = Written(@, r)]
                  /\ steps' = [steps EXCEPT !.scripts = StepResult(r)]
                  /\ pc' = IF r.err THEN "fatal" ELSE "deployConfigResources"
    /\ UNCHANGED <<mode, req, variant, params, sha, todo, visited>>

\* deployConfigResources, lines 427-429, and generateVariant lines 273-275
deployConfigResources ==
    /\ pc = "deployConfigResources"
    /\ LET dir == targetDir(variant)
       IN  \E sc \in CopyScenarios :
              LET r == deployResourcesSubdir(sc)
              IN  /\ fs' = [fs EXCEPT ![dir].config = Written(@, r)]
                  /\ steps' = [steps EXCEPT !.config = StepResult(r)]
                  /\ pc' = IF r.err THEN "fatal" ELSE "deployReadme"
    /\ UNCHANGED <<mode, req, variant, params, sha, todo, visited>>

\* deployReadme whose error the caller does not turn into the end of the run
deployReadmeContinues ==
    /\ pc = "deployReadme"
    /\ LET dir == targetDir(variant)
       IN  \E o \in CopyOutcomes :
              LET r == IF dir \in DOMAIN fs THEN CopyFile(o) ELSE CopyFile("create")
              IN  /\ fs' = IF dir \in DOMAIN fs
                           THEN [fs EXCEPT ![dir].readme = Written(@, r)]
                           ELSE fs
                  /\ steps' = [steps EXCEPT !.readme = StepResult(r)]
                  /\ pc' = AfterVariant
    /\ UNCHANGED <<mode, req, variant, params, sha, todo, visited>>

\* deployReadme, lines 431-448, and generateVariant lines 280-284; a target
\* directory that does not exist makes the creation of the copy fail.
deployReadme ==
    /\ pc = "deployReadme"
    /\ LET dir == targetDir(variant)
       IN  \E o \in CopyOutcomes :
              LET r == IF dir \in DOMAIN fs THEN CopyFile(o) ELSE CopyFile("create")
              IN  /\ fs' = IF dir \in DOMAIN fs
                           THEN [fs EXCEPT ![dir].readme = Written(@, r)]
                           ELSE fs
                  /\ steps' = [steps EXCEPT !.readme = StepResult(r)]
                  /\ pc' = IF r.err THEN "fatal" ELSE AfterVariant
    /\ UNCHANGED <<mode, req, variant, params, sha, todo, visited>>

-----------------------------------------------------------------------------
(* Batch mode *)

\* main, lines 161-164: generate BASE
mainBatch ==
    /\ pc = "main"
    /\ mode = "batch"
    /\ todo' = ScanOrder(versionSubdirectories(fs))
    /\ pc' = "generateAllDockerfiles"
    /\ UNCHANGED <<mode, req, variant, params, sha, fs, steps, visited>>

\* generateAllDockerfiles, lines 183-203: one round of the innermost loop,
\* or the return to main when no directory is left
generateAllDockerfiles ==
    /\ pc = "generateAllDockerfiles"
    /\ \/ /\ todo = <<>>
          /\ pc' = "done"
          /\ UNCHANGED <<req, todo, visited, steps>>
       \/ /\ todo # <<>>
          /\ Matches(Head(todo).product, Head(todo).version)
          /\ visited' = Append(visited, [dir |-> Head(todo), decision |-> "skip"])
          /\ todo' = Tail(todo)
          /\ UNCHANGED <<pc, req, steps>>
       \/ /\ todo # <<>>
          /\ ~Matches(Head(todo).product, Head(todo).version)
          /\ visited' = Append(visited, [dir |-> Head(todo), decision |-> "generate"])
          /\ req' = Request(Head(todo).edition, Head(todo).product, Head(todo).version,
                            "", NoOverrides, TRUE)
          /\ steps' = NoSteps
          /\ todo' = Tail(todo)
          /\ pc' = "generateOneDockerfile"
    /\ UNCHANGED <<mode, variant, params, sha, fs>>

-----------------------------------------------------------------------------
(* Whole runs, in both modes, over a small repository *)

\* The version directories a repository may hold
RunDirs ==
    {VersionDir(EditionCommunity, ProductSyncGw, n) :
        n \in {V(0, 9, 0), V(1, 5, 0), V(2, 0, 1), V(2, 1, 0), V(10, 0, 0),
               VSuf(3, 0, 4, <<"staging">>)}}
    \cup {VersionDir(EditionEnterprise, ProductServer, n) :
        n \in {V(1, 5, 0), V(7, 0, 3), VSuf(7, 0, 3, <<"staging">>)}}
    \cup {VersionDir(EditionEnterprise, ProductColumnar, V(1, 5, 0))}

\* The repositories: at most MaxDirs version directories, each either
\* generated by an earlier run or without any generated file.
Repositories ==
    UNION {[dirs -> {Fresh, Generated}] :
             dirs \in {ds \in SUBSET RunDirs : Cardinality(ds) <= MaxDirs}}

\* The template arguments -t KEY=VALUE of a single-variant call
RunOverrides == {NoOverrides, [k \in {"DOCKER_BASE_IMAGE"} |-> "scratch"]}

\* The single-variant calls: every version directory, written in place
\* (-o "") or to the directory out.
RunRequests ==
    {Request(d.edition, d.product, d.version, o, ov, FALSE) :
        d \in RunDirs, o \in {"out", ""}, ov \in RunOverrides}

InitRun ==
    /\ pc = "main"
    /\ variant = Nothing
    /\ params = Nothing
    /\ sha = NoShas
    /\ todo = <<>>
    /\ steps = NoSteps
    /\ visited = <<>>
    /\ \/ /\ mode = "single"
          /\ req \in RunRequests
          /\ fs \in [{RequestDir(req)} -> {Fresh, Generated}]
       \/ /\ mode = "batch"
          /\ req = Nothing
          /\ fs \in Repositories

NextRun ==
    \/ mainSingle
    \/ mainBatch
    \/ generateAllDockerfiles
    \/ generateOneDockerfile
    \/ generateVariant
    \/ getSHA256Call
    \/ generateDockerfile
    \/ createDockerfile
    \/ renderTemplate
    \/ deployScriptResources
    \/ deployConfigResources
    \/ deployReadme

SpecRun == InitRun /\ [][NextRun]_vars

-----------------------------------------------------------------------------
(* Claims about the resolver *)

HasArch(vt, arch) == \E i \in DOMAIN vt.Arches : vt.Arches[i] = arch

CountArch(vt, arch) == Cardinality({i \in DOMAIN vt.Arches : vt.Arches[i] = arch})

\* The numeric version MAJOR.MINOR.PATCH of the request is at least c.
NumericAtLeast(c) == CompareSegments(req.ver.num, c) >= 0

Constructed == variant # Nothing

Resolved == pc = "createDockerfile"

\* C1: every constructed variant has a non-empty architecture list holding
\* amd64 exactly once, and a couchbase-server variant lists arm64 exactly when
\* its numeric version is at least 7.1.0.
C1_Architectures ==
    Constructed =>
        /\ Len(variant.Arches) >= 1
        /\ CountArch(variant, Archamd64) = 1
        /\ (variant.Product = ProductServer =>
                (HasArch(variant, Archarm64) <=> NumericAtLeast(<<7, 1, 0>>)))
        /\ (variant.Product = ProductServer /\ NumericAtLeast(<<7, 1, 0>>) =>
                variant.Arches = <<Archamd64, Archarm64>>)

C1_Witness ==
    /\ Constructed
    /\ variant.Product = ProductServer
    /\ req.ver.num = <<7, 0, 99>>
    /\ variant.Arches = <<Archamd64>>

\* C2: a server-sandbox variant lists arm64 exactly when its numeric version
\* is at least 7.1.0.
C2_SandboxArm64 ==
    Constructed /\ variant.Product = ProductSandbox =>
        (HasArch(variant, Archarm64) <=> NumericAtLeast(<<7, 1, 0>>))

\* The fixed ranges of the couchbase-server OS-version lookup and their tags;
\* the first one excludes its upper end.
OsRanges ==
    {[lo |-> <<4, 0, 0>>, hi |-> <<5, 0, 0>>, open |-> TRUE, tag |-> "14.04"],
     [lo |-> <<5, 0, 0>>, hi |-> <<6, 0, 0>>, open |-> FALSE, tag |-> "16.04"],
     [lo |-> <<6, 0, 1>>, hi |-> <<6, 6, 1>>, open |-> FALSE, tag |-> "18.04"],
     [lo |-> <<6, 6, 2>>, hi |-> <<7, 1, 6>>, open |-> FALSE, tag |-> "20.04"],
     [lo |-> <<7, 2, 0>>, hi |-> <<7, 2, 5>>, open |-> FALSE, tag |-> "22.04"],
     [lo |-> <<7, 6, 0>>, hi |-> <<7, 6, 1>>, open |-> FALSE, tag |-> "22.04"]}

InRange(v, r) ==
    /\ CompareSegments(v, r.lo) >= 0
    /\ IF r.open THEN CompareSegments(v, r.hi) < 0 ELSE CompareSegments(v, r.hi) <= 0

RangesOf(v) == {r \in OsRanges : InRange(v, r)}

\* A couchbase-server variant whose version is a plain MAJOR.MINOR.PATCH and
\* whose base image has been computed.
ServerTagged ==
    /\ Resolved
    /\ variant.Product = ProductServer
    /\ variant.Version.suf = <<>>

\* C3 as claimed: every version from 4.0.0 to 7.6.1 lies in exactly one range
\* and gets its tag, and from 4.0.0 on only versions above 7.6.1 get the
\* newest tag 24.04.
C3_NoGap ==
    ServerTagged =>
        LET v == variant.Version.num
            tag == params.DOCKER_BASE_IMAGE.tag
        IN  /\ (CompareSegments(v, <<4, 0, 0>>) >= 0 /\ CompareSegments(v, <<7, 6, 1>>) <= 0
                    => /\ Cardinality(RangesOf(v)) = 1
                       /\ \A r \in RangesOf(v) : tag = r.tag)
            /\ (tag = "24.04" /\ CompareSegments(v, <<4, 0, 0>>) >= 0
                    => CompareSegments(v, <<7, 6, 1>>) > 0)

\* C3 amended: the ranges do not overlap, a version inside a range gets that
\* range's tag (7.1.6 gets 20.04, 7.2.0 gets 22.04), and every version in no
\* range gets 24.04, the versions in the gaps between ranges included.
C3_RangesDisjointGapsFallThrough ==
    ServerTagged =>
        LET v == variant.Version.num
            tag == params.DOCKER_BASE_IMAGE.tag
        IN  /\ Cardinality(RangesOf(v)) <= 1
            /\ \A r \in RangesOf(v) : tag = r.tag
            /\ (RangesOf(v) = {} => tag = "24.04")
            /\ (v = <<7, 1, 6>> => tag = "20.04")
            /\ (v = <<7, 2, 0>> => tag = "22.04")

C3_Witness ==
    /\ ServerTagged
    /\ variant.Version.num = <<7, 1, 7>>
    /\ params.DOCKER_BASE_IMAGE.tag = "24.04"

MP1 == VSuf(7, 0, 3, <<"MP1">>)

\* The request is couchbase-server 7.0.3 or 7.0.3-staging.
Is703 ==
    /\ req.product = ProductServer
    /\ req.ver \in {V(7, 0, 3), VSuf(7, 0, 3, <<"staging">>)}

\* C4: couchbase-server 7.0.3[-staging] gets Version 7.0.3-MP1 in the release
\* URL and the package file while its target directory is the one named 7.0.3
\* [-staging]; every other input has Version = TargetVersion.
C4_OnlyMP1Diverges ==
    /\ (Constructed /\ Is703 =>
            /\ variant.Version = MP1
            /\ variant.TargetVersion = V(7, 0, 3)
            /\ (req.outputDir = "" =>
                    targetDir(variant) = VersionDir(req.edition, req.product, req.ver)))
    /\ (Resolved /\ Is703 =>
            /\ params.CB_RELEASE_URL.path = <<MP1>>
            /\ params.CB_PACKAGE.version = MP1)
    /\ (Constructed /\ ~Is703 => variant.Version = variant.TargetVersion)

C4_Witness ==
    /\ Resolved
    /\ req.product = ProductServer
    /\ req.ver = VSuf(7, 0, 3, <<"staging">>)
    /\ req.outputDir = ""
    /\ params.CB_PACKAGE.version = MP1
    /\ targetDir(variant).version = VSuf(7, 0, 3, <<"staging">>)

\* A sync-gateway variant whose parameters are computed, and whether the
\* customization table has its key.
SyncGwResolved == Resolved /\ variant.Product = ProductSyncGw

Customized ==
    /\ req.product = ProductSyncGw
    /\ req.edition \in {"community", "enterprise"}
    /\ req.ver \in {VSuf(2, 0, 0, <<"devbuild">>), VSuf(2, 0, 0, <<"devbuild", "staging">>)}

\* C5: without a customization entry the sync-gateway package name ends in
\* .rpm up to 3.0.3 and in .deb above, and holds the lower-cased edition and
\* the version.
C5_SgPackageExtension ==
    SyncGwResolved /\ ~Customized =>
        LET f == params.SYNC_GATEWAY_PACKAGE_FILENAME
        IN  /\ f.ext = IF CompareSegments(req.ver.num, <<3, 0, 3>>) <= 0 THEN "rpm" ELSE "deb"
            /\ f.edition \in {"community", "enterprise"}
            /\ f.edition = (IF req.edition = "Enterprise" THEN "enterprise" ELSE req.edition)
            /\ f.version = TrimSuffixStaging(req.ver)

C5_Witness ==
    /\ SyncGwResolved
    /\ req.ver = V(3, 0, 4)
    /\ req.edition = "Enterprise"
    /\ params.SYNC_GATEWAY_PACKAGE_FILENAME.ext = "deb"

\* C6: a sync-gateway variant whose key is in the customization table gets
\* the table's URL and filename verbatim, staging or not; every other one gets
\* the values built from the pattern.
C6_CustomizationVerbatim ==
    SyncGwResolved =>
        LET f == params.SYNC_GATEWAY_PACKAGE_FILENAME
            u == params.SYNC_GATEWAY_PACKAGE_URL
        IN  IF Customized
            THEN /\ f = [lit |-> IF req.edition = "community"
                                 THEN "couchbase-sync-gateway-community_2.0.0-827_x86_64.rpm"
                                 ELSE "couchbase-sync-gateway-enterprise_2.0.0-827_x86_64.rpm"]
                 /\ u = [lit |-> IF req.edition = "community"
                                 THEN "http://cbmobile-packages.s3.amazonaws.com/couchbase-sync-gateway-community_2.0.0-827_x86_64.rpm"
                                 ELSE "http://cbmobile-packages.s3.amazonaws.com/couchbase-sync-gateway-enterprise_2.0.0-827_x86_64.rpm"]
            ELSE /\ DOMAIN f = {"base", "edition", "version", "arch", "ext"}
                 /\ DOMAIN u = {"host", "path"}
                 /\ u.path = <<TrimSuffixStaging(req.ver), f>>
                 /\ u.host = IF HasSuffixStaging(req.ver)
                             THEN "http://packages-staging.couchbase.com/releases/couchbase-sync-gateway"
                             ELSE "http://packages.couchbase.com/releases/couchbase-sync-gateway"

C6_Witness ==
    /\ SyncGwResolved
    /\ req.edition = "community"
    /\ req.ver = VSuf(2, 0, 0, <<"devbuild", "staging">>)
    /\ params.SYNC_GATEWAY_PACKAGE_URL =
         [lit |-> "http://cbmobile-packages.s3.amazonaws.com/couchbase-sync-gateway-community_2.0.0-827_x86_64.rpm"]

\* C7: getSHA256 returns a string for every outcome of the fetch: the sentinel
\* on a network error or a status other than 200, and never aborts the run.
C7_ShaNeverAborts ==
    /\ pc # "panic"
    /\ \A a \in DOMAIN sha : DOMAIN sha[a] = {"str"}

-----------------------------------------------------------------------------
(* Claims about whole runs *)

\* The directory the running generateOneDockerfile call was made for
CallDir == RequestDir(req)

InVariant ==
    pc \in {"generateVariant", "getSHA256", "generateDockerfile", "createDockerfile",
            "renderTemplate", "deployScriptResources", "deployConfigResources",
            "deployReadme"}

\* C8: deployReadme runs in every call of generateVariant that does not fail
\* earlier.  It runs either right after the Dockerfile was found to exist under
\* noOverwrite, with no other step run, or after the Dockerfile, scripts and
\* config steps all returned without error; generateVariant returns nil only
\* after deployReadme did, and the run dies only after a step failed.
C8_ReadmeAlwaysRuns ==
    /\ (steps.stat = "skip" =>
            /\ req.noOverwrite
            /\ dockerfileExists(fs, CallDir)
            /\ steps.create = "-" /\ steps.render = "-"
            /\ steps.scripts = "-" /\ steps.config = "-"
            /\ (pc = "deployReadme" \/ steps.readme # "-"))
    /\ (steps.stat = "generate" /\ steps.create = "-" =>
            ~(req.noOverwrite /\ dockerfileExists(fs, CallDir)))
    /\ (steps.readme # "-" /\ steps.stat # "skip" =>
            /\ steps.create = "ok" /\ steps.render = "ok"
            /\ steps.scripts = "ok" /\ steps.config = "ok")
    /\ (pc \in {"done", "generateAllDockerfiles"} /\ steps.stat # "-" =>
            steps.readme = "ok")
    /\ (pc = "fatal" => \E k \in DOMAIN steps : steps[k] = "err")
    /\ (pc = "deployReadme" => \A k \in DOMAIN steps : steps[k] # "err")

C8_Witness ==
    /\ mode = "batch"
    /\ steps.stat = "skip"
    /\ steps.scripts = "-"
    /\ steps.readme = "ok"
    /\ fs[CallDir].readme = "new"

\* C9 as claimed: batch mode skips a version directory exactly when it is a
\* sync-gateway version below 2.0.1.
C9_SkipBelow201 ==
    \A i \in DOMAIN visited :
        visited[i].decision = "skip" <=>
            /\ visited[i].dir.product = ProductSyncGw
            /\ CompareSegments(visited[i].dir.version.num, <<2, 0, 1>>) < 0

\* C9 amended: batch mode skips a version directory exactly when it is a
\* sync-gateway version 1.x or 2.0.x.
C9_SkipOneAndTwoZero ==
    \A i \in DOMAIN visited :
        visited[i].decision = "skip" <=>
            /\ visited[i].dir.product = ProductSyncGw
            /\ \/ visited[i].dir.version.num[1] = 1
               \/ /\ visited[i].dir.version.num[1] = 2
                  /\ visited[i].dir.version.num[2] = 0

C9_Witness ==
    \E i \in DOMAIN visited :
        /\ visited[i].dir = VersionDir(EditionCommunity, ProductSyncGw, V(2, 0, 1))
        /\ visited[i].decision = "skip"

\* C10, the paths: in batch mode the Dockerfile path of a variant is the
\* scanned directory itself, a rendered Dockerfile is there, and a run that
\* ends well leaves a Dockerfile in every directory it did not skip; in
\* single-variant mode the Dockerfile is never skipped and is new at the end.
C10_Paths ==
    /\ (mode = "batch" /\ InVariant =>
            /\ dockerfile(variant) =
                 VersionDir(req.edition, req.product, req.ver)
            /\ dockerfile(variant) \in DOMAIN fs)
    /\ (mode = "batch" /\ steps.render = "ok" => fs[CallDir].dockerfile = "new")
    /\ (mode = "batch" /\ pc = "done" =>
            \A i \in DOMAIN visited :
                visited[i].decision = "generate" =>
                    fs[visited[i].dir].dockerfile \in {"old", "new"})
    /\ (mode = "single" => steps.stat # "skip")
    /\ (mode = "single" /\ pc = "done" => fs[CallDir].dockerfile = "new")

\* C10, the frame: in batch mode a step changes nothing but README.md in a
\* directory that holds the Dockerfile of an earlier run, and nothing at all
\* in a directory other than the one of the running call.
C10_Frame ==
    mode = "batch" =>
        \A d \in DOMAIN fs :
            /\ (fs[d].dockerfile = "old" =>
                    /\ fs'[d].dockerfile = "old"
                    /\ fs'[d].scripts = fs[d].scripts
                    /\ fs'[d].config = fs[d].config)
            /\ (fs'[d] # fs[d] => d = CallDir)

\* C10: batch mode leaves a directory that has a Dockerfile unchanged except
\* for README.md and writes the Dockerfile of every other directory it does
\* not skip into that very directory; single-variant mode always rewrites it.
C10_BatchKeepsExisting == [](C10_Paths) /\ [][C10_Frame]_vars

C10_Witness ==
    /\ mode = "batch"
    /\ pc = "done"
    /\ \E d \in DOMAIN fs :
          /\ fs[d].dockerfile = "old" /\ fs[d].scripts = "old" /\ fs[d].readme = "new"
    /\ \E d \in DOMAIN fs :
          /\ HasSuffixStaging(d.version)
          /\ fs[d].dockerfile = "new"

\* C11, the order: in batch mode the directories are visited in the order
\* edition, product, version name; every directory still to visit comes after
\* every visited one, and the running call is for the directory visited last.
C11_Order ==
    mode = "batch" =>
        /\ \A i, j \in DOMAIN visited :
              i < j => DirBefore(visited[i].dir, visited[j].dir)
        /\ \A i \in DOMAIN visited : \A k \in DOMAIN todo :
              DirBefore(visited[i].dir, todo[k])
        /\ \A k, l \in DOMAIN todo : k < l => DirBefore(todo[k], todo[l])
        /\ (InVariant =>
              /\ visited # <<>>
              /\ visited[Len(visited)].decision = "generate"
              /\ visited[Len(visited)].dir = CallDir)

\* C11, the failure: a step of generateVariant that returned an error has
\* ended the run.
C11_ErrorIsFatal ==
    (\E k \in DOMAIN steps : steps[k] = "err") => pc = "fatal"

\* C11, the steps: nothing happens after the run was ended; the loop moves to
\* the next directory only from its own position, after the call before
\* returned from deployReadme without error; and a file changes only inside a
\* call of generateVariant.
C11_Sequential ==
    /\ pc \notin {"fatal", "panic"}
    /\ (visited' # visited =>
            /\ pc = "generateAllDockerfiles"
            /\ \A k \in DOMAIN steps : steps[k] # "err"
            /\ (steps.stat # "-" => steps.readme = "ok"))
    /\ (fs' # fs => InVariant)

\* C11: batch mode handles the version directories one after another in the
\* order edition, product, version, and an error returned by generateVariant
\* ends the whole run: no later directory is resolved or written.
C11_BatchOrderFailStops ==
    [](C11_Order /\ C11_ErrorIsFatal) /\ [][C11_Sequential]_vars

C11_Witness ==
    /\ mode = "batch"
    /\ pc = "fatal"
    /\ steps.scripts = "err"
    /\ todo # <<>>
    /\ fs[todo[1]].dockerfile = "absent"

\* C12: every failed copy inside an existing scripts/ or config/ resource
\* directory makes its deploy step return an error, so that the README step is
\* not reached; a resource directory that does not exist is skipped without
\* error.  A destination is "partial" exactly when the copy of one of its
\* entries failed: no step that left one returned nil, and deployReadme is not
\* reached with one left by the running call.
C12_CopyErrorsPropagate ==
    /\ (steps.scripts = "ok" => fs[CallDir].scripts # "partial")
    /\ (steps.config = "ok" => fs[CallDir].config # "partial")
    /\ (steps.stat = "generate" /\ (pc = "deployReadme" \/ steps.readme # "-") =>
            /\ fs[CallDir].scripts # "partial"
            /\ fs[CallDir].config # "partial")
    /\ deployResourcesSubdir([exists |-> "no", pre |-> "ok", entries |-> <<>>]) =
            [err |-> FALSE, wrote |-> "none"]

\* C13: a failed Dockerfile generation leaves no Dockerfile behind.  In batch
\* mode the Dockerfile is generated only where none existed: after the
\* template could not be read, parsed or executed, os.Stat finds no file at
\* the Dockerfile path, so that a later batch run generates the variant again.
C13_FailedGenerationLeavesNothing ==
    mode = "batch" /\ steps.render = "err" =>
        /\ ~dockerfileExists(fs, dockerfile(variant))
        /\ fs[CallDir].dockerfile = "absent"

-----------------------------------------------------------------------------
(* Claims about the operating system family of sync-gateway *)

\* The extension of a package filename: that of the pattern, or the end of
\* the literal name of a customization entry.
PackageExt(f) ==
    IF "ext" \in DOMAIN f THEN f.ext
    ELSE IF f \in {[lit |-> "couchbase-sync-gateway-community_2.0.0-827_x86_64.rpm"],
                   [lit |-> "couchbase-sync-gateway-enterprise_2.0.0-827_x86_64.rpm"]}
    THEN "rpm"
    ELSE "none"

CentosTemplate == variant.TemplateFilename = "Dockerfile.centos.template"

CentosImage == params.DOCKER_BASE_IMAGE = [lit |-> "centos:centos7"]

RpmPackage == PackageExt(params.SYNC_GATEWAY_PACKAGE_FILENAME) = "rpm"

Amd64Only == variant.Arches = <<Archamd64>>

\* The template, the package and the architecture list of the ubuntu family
UbuntuButImage ==
    /\ variant.TemplateFilename = "Dockerfile.ubuntu.template"
    /\ PackageExt(params.SYNC_GATEWAY_PACKAGE_FILENAME) = "deb"
    /\ HasArch(variant, Archarm64)

UbuntuImage == params.DOCKER_BASE_IMAGE = [image |-> "ubuntu", tag |-> "22.04"]

\* C14 as claimed: for every sync-gateway version the template is the centos
\* one exactly when the base image is centos:centos7, exactly when the package
\* is an .rpm, exactly when amd64 is the only architecture; otherwise template,
\* base image, package and architectures are those of ubuntu 22.04.
C14_OsFamilyAgrees ==
    SyncGwResolved =>
        /\ (CentosTemplate <=> CentosImage)
        /\ (CentosImage <=> RpmPackage)
        /\ (RpmPackage <=> Amd64Only)
        /\ (~CentosTemplate => UbuntuButImage /\ UbuntuImage)

\* C14 amended: template, package and architecture list always agree on the
\* family; the base image agrees with them for every version whose string
\* does not contain "forestdb", and is tleyden5iwx/forestdb for every version
\* whose string does, whatever the family of the other three.
C14_OsFamilyAgreesButForestdb ==
    SyncGwResolved =>
        /\ (CentosTemplate <=> RpmPackage)
        /\ (RpmPackage <=> Amd64Only)
        /\ (CentosTemplate <=> CompareSegments(req.ver.num, <<3, 0, 3>>) <= 0)
        /\ (~CentosTemplate => UbuntuButImage)
        /\ IF \E i \in DOMAIN req.ver.suf : req.ver.suf[i] = "forestdb"
           THEN params.DOCKER_BASE_IMAGE = [lit |-> "tleyden5iwx/forestdb"]
           ELSE IF CentosTemplate THEN CentosImage ELSE UbuntuImage

C14_Witness ==
    /\ SyncGwResolved
    /\ req.ver = VSuf(3, 0, 4, <<"forestdb">>)
    /\ UbuntuButImage
    /\ params.DOCKER_BASE_IMAGE = [lit |-> "tleyden5iwx/forestdb"]

=============================================================================
